---- MODULE Spec2Model ----
(***************************************************************************)
(* Work Item Assistant: the gate evaluator (soft_gate), the draft          *)
(* generator (generate_work_item_draft), the two request handlers of       *)
(* main.py and the tracking-system adapter of ado.py.                      *)
(*                                                                         *)
(* Python values are tagged records.  Strings are sequences of characters; *)
(* a long fixed text whose characters the code never inspects is written   *)
(* as a one-symbol sequence.  Floats are counted in tenths (JFlt(7) is     *)
(* 0.7).  A dict is a function whose DOMAIN is the set of keys present.    *)
(* The text an oracle returns is a sequence of lexical tokens.             *)
(***************************************************************************)
EXTENDS Integers, Sequences, FiniteSets, TLC

VARIABLES pc, req, reply, gate, draft, calls, exc, resp, merged_context, again

vars == <<pc, req, reply, gate, draft, calls, exc, resp, merged_context, again>>

(***************************************************************************)
(* Bounds of the model.                                                    *)
(***************************************************************************)
MaxNotesLen == 3

MaxTextLen == 2

(***************************************************************************)
(* Python values.                                                          *)
(***************************************************************************)
JNone == [t |-> "none"]

JBool(b) == [t |-> "bool", b |-> b]

JInt(n) == [t |-> "int", n |-> n]

JFlt(n) == [t |-> "flt", n |-> n]

JNaN == [t |-> "nan"]

JStr(s) == [t |-> "str", s |-> s]

JList(items) == [t |-> "list", items |-> items]

JDict(d) == [t |-> "dict", d |-> d]

NoVal == [t |-> "unset"]

Raise(e) == [ok |-> FALSE, err |-> e]

Return(v) == [ok |-> TRUE, v |-> v]

(* x or "" *)
OrEmpty(x) == IF x = JNone \/ x = JStr(<<>>) THEN JStr(<<>>) ELSE x

(* bool(x) for the values the handlers test *)
Truthy(x) ==
    CASE x.t = "none" -> FALSE
      [] x.t = "bool" -> x.b
      [] x.t = "int" -> x.n # 0
      [] x.t = "flt" -> x.n # 0
      [] x.t = "nan" -> TRUE
      [] x.t = "str" -> x.s # <<>>
      [] x.t = "list" -> x.items # <<>>
      [] x.t = "dict" -> DOMAIN x.d # {}

(* dict.setdefault(k, v) *)
SetDefault(d, k, v) == IF k \in DOMAIN d THEN d ELSE (k :> v) @@ d

(* dict.get(k) *)
Get(d, k) == IF k \in DOMAIN d THEN d[k] ELSE JNone

(* d[k] = v *)
Put(d, k, v) == (k :> v) @@ d

IsWs(c) == c \in {" ", "\n", "\t"}

RECURSIVE LStrip(_)
LStrip(s) == IF s # <<>> /\ IsWs(Head(s)) THEN LStrip(Tail(s)) ELSE s

RECURSIVE RStrip(_)
RStrip(s) ==
    IF s # <<>> /\ IsWs(s[Len(s)]) THEN RStrip(SubSeq(s, 1, Len(s) - 1)) ELSE s

(* str.strip() *)
Strip(s) == RStrip(LStrip(s))

Digits == <<"0", "1", "2", "3", "4", "5", "6", "7", "8", "9">>

IsDigit(c) == \E i \in 1..Len(Digits) : Digits[i] = c

DigitVal(c) == (CHOOSE i \in 1..Len(Digits) : Digits[i] = c) - 1

RECURSIVE NatVal(_)
NatVal(s) ==
    IF s = <<>> THEN 0
    ELSE 10 * NatVal(SubSeq(s, 1, Len(s) - 1)) + DigitVal(s[Len(s)])

RECURSIVE NatStr(_)
NatStr(n) ==
    IF n < 10 THEN <<Digits[n + 1]>>
    ELSE NatStr(n \div 10) \o <<Digits[(n % 10) + 1]>>

AllDigits(s) == s # <<>> /\ \A i \in 1..Len(s) : IsDigit(s[i])

(* float() of an unsigned decimal literal with at most one fractional     *)
(* digit, of "nan", or of anything else (ValueError).                      *)
FloatOfUnsigned(s) ==
    IF AllDigits(s) THEN Return(JFlt(10 * NatVal(s)))
    ELSE IF Len(s) >= 3 /\ s[Len(s) - 1] = "." /\ IsDigit(s[Len(s)])
              /\ AllDigits(SubSeq(s, 1, Len(s) - 2))
         THEN Return(JFlt(10 * NatVal(SubSeq(s, 1, Len(s) - 2))
                          + DigitVal(s[Len(s)])))
    ELSE IF s = <<"n", "a", "n">> THEN Return(JNaN)
    ELSE Raise("ValueError")

FloatOfStr(s) ==
    LET u == Strip(s) IN
    IF u # <<>> /\ Head(u) = "-"
    THEN LET r == FloatOfUnsigned(Tail(u)) IN
         IF r.ok /\ r.v.t = "flt" THEN Return(JFlt(0 - r.v.n)) ELSE r
    ELSE FloatOfUnsigned(u)

(* float(x) *)
PyFloat(x) ==
    CASE x.t = "flt" -> Return(x)
      [] x.t = "nan" -> Return(x)
      [] x.t = "int" -> Return(JFlt(10 * x.n))
      [] x.t = "bool" -> Return(JFlt(IF x.b THEN 10 ELSE 0))
      [] x.t = "str" -> FloatOfStr(x.s)
      [] OTHER -> Raise("TypeError")

(* a < b on floats: every comparison with nan is false *)
FloatLt(a, b) == a.t = "flt" /\ b.t = "flt" /\ a.n < b.n

(* min(a, b) and max(a, b): the first argument stays unless the second    *)
(* compares strictly beyond it                                             *)
PyMin(a, b) == IF FloatLt(b, a) THEN b ELSE a

PyMax(a, b) == IF FloatLt(a, b) THEN b ELSE a

(* the clamp left out *)
ClampMissing(c) == c

(* max(0.0, min(1.0, c)) *)
Clamp01(c) == PyMax(JFlt(0), PyMin(JFlt(10), c))

IntStr(n) == IF n < 0 THEN <<"-">> \o NatStr(0 - n) ELSE NatStr(n)

FltStr(n) ==
    LET a == IF n < 0 THEN 0 - n ELSE n IN
    (IF n < 0 THEN <<"-">> ELSE <<>>)
        \o NatStr(a \div 10) \o <<".">> \o <<Digits[(a % 10) + 1]>>

(* str(x) of a value that is neither a list nor a dict *)
PyStr(x) ==
    CASE x.t = "str" -> x.s
      [] x.t = "none" -> <<"N", "o", "n", "e">>
      [] x.t = "bool" -> IF x.b THEN <<"T", "r", "u", "e">>
                         ELSE <<"F", "a", "l", "s", "e">>
      [] x.t = "int" -> IntStr(x.n)
      [] x.t = "flt" -> FltStr(x.n)
      [] x.t = "nan" -> <<"n", "a", "n">>

IsList(x) == x.t = "list"

IsStr(x) == x.t = "str"

(***************************************************************************)
(* The text of an oracle completion, as lexical tokens: whitespace, prose  *)
(* (anything that is no JSON), the two braces, one "key": value member of  *)
(* an object, and one complete JSON value that is no object.               *)
(***************************************************************************)
TWs == [k |-> "ws"]

TProse == [k |-> "prose"]

TLb == [k |-> "lb"]

TRb == [k |-> "rb"]

TKv(key, val) == [k |-> "kv", key |-> key, val |-> val]

TVal(val) == [k |-> "val", val |-> val]

JText(toks) == [t |-> "text", toks |-> toks]

NoChoices == [t |-> "nochoices"]

EmptyDict == [k \in {} |-> JNone]

RECURSIVE TokLStrip(_)
TokLStrip(s) == IF s # <<>> /\ Head(s).k = "ws" THEN TokLStrip(Tail(s)) ELSE s

RECURSIVE TokRStrip(_)
TokRStrip(s) ==
    IF s # <<>> /\ s[Len(s)].k = "ws"
    THEN TokRStrip(SubSeq(s, 1, Len(s) - 1)) ELSE s

(* (text or "").strip() on a completion's content *)
TextStrip(content) ==
    IF content.t = "text" THEN TokRStrip(TokLStrip(content.toks)) ELSE <<>>

RECURSIVE BuildDict(_)
BuildDict(members) ==
    IF members = <<>> THEN EmptyDict
    ELSE Put(BuildDict(SubSeq(members, 1, Len(members) - 1)),
             members[Len(members)].key, members[Len(members)].val)

NotWs(tok) == tok.k # "ws"

(* json.loads(text): one JSON value with optional whitespace around and   *)
(* between its tokens; a later duplicate key replaces an earlier one       *)
JsonLoads(toks) ==
    LET core == SelectSeq(toks, NotWs)
        n == Len(core)
    IN  IF n = 1 /\ core[1].k = "val" THEN Return(core[1].val)
        ELSE IF n >= 2 /\ core[1].k = "lb" /\ core[n].k = "rb"
                  /\ \A i \in 2..(n - 1) : core[i].k = "kv"
             THEN Return(JDict(BuildDict(SubSeq(core, 2, n - 1))))
        ELSE Raise("JSONDecodeError")

(* text.find("{") and text.rfind("}"): 1-based here, 0 when not found     *)
FindLb(toks) ==
    IF \E i \in 1..Len(toks) : toks[i].k = "lb"
    THEN CHOOSE i \in 1..Len(toks) :
             toks[i].k = "lb" /\ \A j \in 1..(i - 1) : toks[j].k # "lb"
    ELSE 0

RFindRb(toks) ==
    IF \E i \in 1..Len(toks) : toks[i].k = "rb"
    THEN CHOOSE i \in 1..Len(toks) :
             toks[i].k = "rb" /\ \A j \in (i + 1)..Len(toks) : toks[j].k # "rb"
    ELSE 0

(***************************************************************************)
(* Fixed texts.                                                            *)
(***************************************************************************)
CREATE_DRAFT == <<"c", "r", "e", "a", "t", "e", "_", "d", "r", "a", "f", "t">>

ASK_QUESTIONS_ONLY ==
    <<"a", "s", "k", "_", "q", "u", "e", "s", "t", "i", "o", "n", "s", "_",
      "o", "n", "l", "y">>

NEW_WORK_ITEM ==
    <<"N", "e", "w", " ", "W", "o", "r", "k", " ", "I", "t", "e", "m">>

GateFallback ==
    [action |-> JStr(CREATE_DRAFT),
     messageToUser |-> JStr(<<"I created a draft work item. A few details would help finalize it.">>),
     questions |-> JList(<<JStr(<<"What is the scope, environment, and how will we validate success?">>)>>),
     assumptions |-> JList(<<>>),
     confidence |-> JFlt(5)]

(* _safe_json(text) *)
safe_json(content) ==
    LET text == TextStrip(content)
        strict == JsonLoads(text)
        start == FindLb(text)
        end == RFindRb(text)
        inner == JsonLoads(SubSeq(text, start, end))
    IN  IF strict.ok THEN strict.v
        ELSE IF start # 0 /\ end # 0 /\ end > start /\ inner.ok THEN inner.v
        ELSE JDict(GateFallback)

GateShortCircuit ==
    [action |-> JStr(ASK_QUESTIONS_ONLY),
     messageToUser |-> JStr(<<"Please provide at least a short phrase describing the work item.">>),
     questions |-> JList(<<JStr(<<"What do you want to build/fix/change?">>)>>),
     assumptions |-> JList(<<>>),
     confidence |-> JFlt(2)]

(* the guard without the strip() *)
GateGuardUnstripped(notes) == Len(OrEmpty(notes).s) < 2

(* len((notes or "").strip()) < 2 *)
GateGuard(notes) == Len(Strip(OrEmpty(notes).s)) < 2

GateDefaults(d) ==
    SetDefault(
      SetDefault(
        SetDefault(
          SetDefault(
            SetDefault(d, "action", JStr(CREATE_DRAFT)),
            "messageToUser", JStr(<<"I created a draft work item.">>)),
          "questions", JList(<<>>)),
        "assumptions", JList(<<>>)),
      "confidence", JFlt(6))

GateConfidence(d) ==
    LET c == PyFloat(d["confidence"]) IN
    Put(d, "confidence", IF c.ok THEN Clamp01(c.v) ELSE JFlt(6))

(* the repair without its isinstance test *)
GateListRepairAlways(d, k) == Put(d, k, JList(<<Get(d, k)>>))

(* the repair of the draft path used on the gate path *)
GateListRepairAsDraft(d, k) ==
    IF IsList(Get(d, k)) THEN d ELSE Put(d, k, JList(<<JStr(PyStr(Get(d, k)))>>))

GateListRepair(d, k) == IF IsList(Get(d, k)) THEN d ELSE Put(d, k, JList(<<>>))

(* soft_gate, from the parsed data to the returned dict *)
GateNormalize(data) ==
    IF data.t # "dict" THEN Raise("AttributeError")
    ELSE Return(JDict(
           GateListRepair(
             GateListRepair(GateConfidence(GateDefaults(data.d)), "questions"),
             "assumptions")))

(* soft_gate, from the completion to the returned dict *)
GateFromReply(completion) ==
    GateNormalize(safe_json(IF completion = NoChoices THEN JStr(<<>>) ELSE completion))

(***************************************************************************)
(* generate_work_item_draft.                                               *)
(***************************************************************************)
DraftCanned ==
    [title |-> JStr(NEW_WORK_ITEM),
     description |-> JStr(<<"Draft created from empty input. Please add details.">>),
     valueStatement |-> JStr(<<"Improve clarity and track work.">>),
     acceptanceCriteria |-> JList(<<JStr(<<"Requester provides requirements and validation steps.">>)>>),
     tasks |-> JList(<<JStr(<<"Collect requirements">>), JStr(<<"Define acceptance criteria">>)>>),
     assumptions |-> JList(<<>>),
     dependencies |-> JList(<<>>),
     questions |-> JList(<<JStr(<<"What do you want to build/fix?">>), JStr(<<"What does success look like?">>)>>),
     confidence |-> JFlt(2)]

(* not (notes_text or "").strip() *)
DraftGuard(notes) == Strip(OrEmpty(notes).s) = <<>>

DraftListKeys ==
    <<"acceptanceCriteria", "tasks", "assumptions", "dependencies", "questions">>

DraftDefaults(d) ==
    SetDefault(
     SetDefault(
      SetDefault(
       SetDefault(
        SetDefault(
         SetDefault(
          SetDefault(
           SetDefault(
            SetDefault(d, "title", JStr(NEW_WORK_ITEM)),
            "description", JStr(<<>>)),
           "valueStatement", JStr(<<>>)),
          "acceptanceCriteria", JList(<<>>)),
         "tasks", JList(<<>>)),
        "assumptions", JList(<<>>)),
       "dependencies", JList(<<>>)),
      "questions", JList(<<>>)),
     "confidence", JFlt(5))

DraftListCoerce(d, k) ==
    IF IsList(Get(d, k)) THEN d ELSE Put(d, k, JList(<<JStr(PyStr(Get(d, k)))>>))

RECURSIVE DraftListCoerceAll(_, _)
DraftListCoerceAll(d, keys) ==
    IF keys = <<>> THEN d
    ELSE DraftListCoerceAll(DraftListCoerce(d, Head(keys)), Tail(keys))

DraftConfidence(d) ==
    LET c == PyFloat(IF "confidence" \in DOMAIN d THEN d["confidence"] ELSE JFlt(5))
    IN  Put(d, "confidence", IF c.ok THEN Clamp01(c.v) ELSE JFlt(5))

DraftTitle(d) ==
    LET t == IF "title" \in DOMAIN d THEN d["title"] ELSE JStr(<<>>) IN
    IF Strip(PyStr(t)) = <<>> THEN Put(d, "title", JStr(NEW_WORK_ITEM)) ELSE d

(* generate_work_item_draft, from the parsed data to the returned dict *)
DraftNormalize(data) ==
    IF data.t # "dict" THEN Raise("AttributeError")
    ELSE Return(JDict(
           DraftTitle(DraftConfidence(
             DraftListCoerceAll(DraftDefaults(data.d), DraftListKeys)))))

(* generate_work_item_draft, from the completion to the returned dict *)
DraftFromReply(completion) ==
    IF completion = NoChoices THEN Raise("IndexError")
    ELSE LET raw == TextStrip(completion)
             parsed == JsonLoads(raw)
         IN  IF raw = <<>> THEN Raise("RuntimeError")
             ELSE IF ~parsed.ok THEN Raise("RuntimeError")
             ELSE DraftNormalize(parsed.v)

(***************************************************************************)
(* main.py: the response models and the two handlers' helpers.             *)
(***************************************************************************)
WorkItemType == {"PBI", "Bug", "Task", "Feature", "Epic", "User Story"}

IsStrList(x) ==
    IsList(x) /\ \A i \in 1..Len(x.items) : IsStr(x.items[i])

IsNumber(x) == x.t \in {"flt", "int"}

(* the GateResponse model accepts the dict g *)
GateResponseValid(g) ==
    /\ Get(g, "action") \in {JStr(CREATE_DRAFT), JStr(ASK_QUESTIONS_ONLY)}
    /\ IsStr(Get(g, "messageToUser"))
    /\ IsStrList(Get(g, "questions"))
    /\ IsStrList(Get(g, "assumptions"))
    /\ IsNumber(Get(g, "confidence"))

(* the DraftResponse model accepts the dict d *)
DraftResponseValid(d) ==
    /\ IsStr(Get(d, "title"))
    /\ IsStr(Get(d, "description"))
    /\ IsStr(Get(d, "valueStatement"))
    /\ \A i \in 1..Len(DraftListKeys) : IsStrList(Get(d, DraftListKeys[i]))
    /\ IsNumber(Get(d, "confidence"))

RECURSIVE JoinFrom(_, _, _)
JoinFrom(sep, items, i) ==
    IF i > Len(items) THEN <<>>
    ELSE (IF i > 1 THEN sep ELSE <<>>) \o items[i].s \o JoinFrom(sep, items, i + 1)

(* sep.join(items) *)
Join(sep, items) ==
    IF \A i \in 1..Len(items) : IsStr(items[i])
    THEN Return(JoinFrom(sep, items, 1))
    ELSE Raise("TypeError")

(* merged_context, then merged_context or None *)
MergedContext(extra, g) ==
    LET base == OrEmpty(extra).s
        bullets == Join(<<"\n", "-", " ">>, g["assumptions"].items)
        text == IF ~Truthy(g["assumptions"]) THEN Return(base)
                ELSE IF bullets.ok
                     THEN Return(base \o <<"\n", "\n", "Assumptions:", "\n", "-", " ">>
                                      \o bullets.v)
                     ELSE bullets
    IN  IF ~text.ok THEN text
        ELSE Return(IF text.v = <<>> THEN JNone ELSE JStr(text.v))

(* the gate's questions appended to the draft's own *)
MergeQuestionsAppended(d, g) ==
    Put(d, "questions", JList(Get(d, "questions").items \o Get(g, "questions").items))

(* if not draft.get("questions") and gate.get("questions"): ... *)
MergeQuestions(d, g) ==
    IF ~Truthy(Get(d, "questions")) /\ Truthy(Get(g, "questions"))
    THEN Put(d, "questions", g["questions"])
    ELSE d

BEARER == <<"B", "e", "a", "r", "e", "r", " ">>

(* s.startswith(p) *)
StartsWith(s, p) == Len(s) >= Len(p) /\ SubSeq(s, 1, Len(p)) = p

RECURSIVE Replace(_, _)
(* s.replace(p, "") *)
Replace(s, p) ==
    IF s = <<>> THEN <<>>
    ELSE IF StartsWith(s, p) THEN Replace(SubSeq(s, Len(p) + 1, Len(s)), p)
    ELSE <<Head(s)>> \o Replace(Tail(s), p)

BearerToken(auth) == Strip(Replace(auth, BEARER))

(***************************************************************************)
(* ado.py.                                                                 *)
(***************************************************************************)
render_description_html(description_md) ==
    IF ~Truthy(description_md) THEN <<>>
    ELSE <<"<div>">> \o description_md.s \o <<"</div>">>

(* a call of render_description_html with keyword arguments kw *)
render_description_html_call(kw) ==
    IF DOMAIN kw = {"description_md"}
    THEN Return(JStr(render_description_html(kw["description_md"])))
    ELSE Raise("TypeError")

(* work_item_type.strip().upper() for the declared work-item types *)
Upper(work_item_type) ==
    CASE work_item_type = "PBI" -> "PBI"
      [] work_item_type = "Bug" -> "BUG"
      [] work_item_type = "Task" -> "TASK"
      [] work_item_type = "Feature" -> "FEATURE"
      [] work_item_type = "Epic" -> "EPIC"
      [] work_item_type = "User Story" -> "USER STORY"

ProviderType(work_item_type) ==
    IF Upper(work_item_type) = "PBI" THEN "Product Backlog Item"
    ELSE work_item_type

RECURSIVE AcText(_)
AcText(items) ==
    IF items = <<>> THEN <<>>
    ELSE LET rest == AcText(Tail(items)) IN
         IF Truthy(Head(items)) /\ Strip(Head(items).s) # <<>>
         THEN <<<<"-", " ">> \o Head(items).s>> \o rest
         ELSE rest

PatchOps(title, description_md, acceptance_criteria) ==
    <<[op |-> "add", path |-> "/fields/System.Title", value |-> title],
      [op |-> "add", path |-> "/fields/System.Description",
       value |-> JStr(render_description_html(description_md))]>>
    \o (IF AcText(acceptance_criteria) # <<>>
        THEN <<[op |-> "add",
                path |-> "/fields/Microsoft.VSTS.Common.AcceptanceCriteria",
                value |-> AcText(acceptance_criteria)]>>
        ELSE <<>>)

(* a call of create_work_item with keyword arguments kw; the provider     *)
(* answers ok or not                                                       *)
create_work_item_call(kw, providerOk) ==
    IF DOMAIN kw # {"title", "description_md", "acceptance_criteria", "work_item_type"}
    THEN [ok |-> FALSE, err |-> "TypeError", posted |-> <<>>]
    ELSE LET ops == PatchOps(kw["title"], kw["description_md"],
                             kw["acceptance_criteria"].items)
             sent == <<[wit |-> ProviderType(kw["work_item_type"]), ops |-> ops]>>
         IN  IF providerOk
             THEN [ok |-> TRUE,
                   v |-> [id |-> JInt(1), workItemType |-> ProviderType(kw["work_item_type"])],
                   posted |-> sent]
             ELSE [ok |-> FALSE, err |-> "RuntimeError", posted |-> sent]

(***************************************************************************)
(* Inputs: the notes of a request and the completions the oracle can       *)
(* return.                                                                 *)
(***************************************************************************)
SeqsUpTo(S, n) == UNION {[1..m -> S] : m \in 0..n}

NotesTexts == {JStr(s) : s \in SeqsUpTo({"x", " "}, MaxNotesLen)}

Omit == [t |-> "omit"]

Member(key, opt) == IF opt = Omit THEN <<>> ELSE <<TKv(key, opt)>>

Q1 == JStr(<<"g", "q", "1">>)

Q2 == JStr(<<"g", "q", "2">>)

DQ == JStr(<<"d", "q">>)

A1 == JStr(<<"a", "1">>)

ConfidenceOpts ==
    {Omit, JFlt(3), JFlt(15), JFlt(0 - 5), JInt(1), JInt(2), JInt(0 - 1), JNaN,
     JBool(TRUE), JNone, JList(<<>>),
     JStr(<<"0", ".", "7">>), JStr(<<" ", "2", " ">>), JStr(<<"-", "3">>),
     JStr(<<"a", "b", "c">>), JStr(<<>>), JStr(<<"n", "a", "n">>)}

ActionOpts ==
    {Omit, JStr(CREATE_DRAFT), JStr(ASK_QUESTIONS_ONLY), JStr(<<"m", "a", "y", "b", "e">>),
     JNone}

MessageOpts == {Omit, JStr(<<"m", "s", "g">>), JNone}

NonListOpts ==
    {JNone, JStr(<<"t", "x", "t">>), JStr(<<>>), JInt(5), JFlt(0 - 25), JBool(FALSE)}

GateObject(a, m, q, s, c) ==
    <<TLb>> \o Member("action", a) \o Member("messageToUser", m)
            \o Member("questions", q) \o Member("assumptions", s)
            \o Member("confidence", c) \o <<TRb>>

(* objects that vary the scalar fields, and objects that vary the lists   *)
GateObjects ==
    {GateObject(a, m, Omit, Omit, c) :
        a \in ActionOpts, m \in MessageOpts, c \in ConfidenceOpts}
    \cup
    {GateObject(a, JStr(<<"m", "s", "g">>), q, s, JFlt(7)) :
        a \in ActionOpts,
        q \in {Omit, JList(<<>>), JList(<<Q1, Q2>>)} \cup NonListOpts,
        s \in {Omit, JList(<<>>), JList(<<A1>>), JList(<<JNone>>), JInt(5)}}

TokenAlphabet ==
    {TWs, TProse, TLb, TRb, TVal(JInt(5)), TVal(JList(<<>>)), TVal(JNone),
     TVal(JStr(<<"s">>))}

(* every short text, among them "", "{}", "[]", "null", "5", prose        *)
ShortTexts == SeqsUpTo(TokenAlphabet, MaxTextLen)

(* the object alone, and the object inside prose *)
Wrap(obj) == {obj, <<TProse, TWs>> \o obj \o <<TWs, TProse>>}

(* braces around something that is no object, and two objects in a row *)
BrokenTexts ==
    {<<TLb, TProse, TRb>>, <<TProse, TRb, TLb>>,
     <<TLb, TRb, TProse, TLb, TRb>>, <<TProse, TLb, TRb, TWs>>}

GateReplies ==
    {JNone, NoChoices}
    \cup {JText(t) : t \in ShortTexts \cup BrokenTexts}
    \cup {JText(t) : t \in UNION {Wrap(o) : o \in GateObjects}}

DraftObject(ti, de, vs, ac, ta, as, dp, q, c) ==
    <<TLb>> \o Member("title", ti) \o Member("description", de)
            \o Member("valueStatement", vs) \o Member("acceptanceCriteria", ac)
            \o Member("tasks", ta) \o Member("assumptions", as)
            \o Member("dependencies", dp) \o Member("questions", q)
            \o Member("confidence", c) \o <<TRb>>

TitleOpts ==
    {Omit, JStr(<<"T">>), JStr(<<>>), JStr(<<" ", "\n">>), JNone, JInt(0)}

DraftObjects ==
    {DraftObject(ti, JStr(<<"d">>), Omit, Omit, Omit, Omit, Omit, q, c) :
        ti \in TitleOpts, q \in {Omit, JList(<<DQ>>)}, c \in ConfidenceOpts}
    \cup
    {DraftObject(JStr(<<"T">>), de, Omit, ac, ta, JList(<<A1>>), dp, q, JFlt(7)) :
        de \in {Omit, JStr(<<"d">>), JNone},
        ac \in {Omit, JList(<<JStr(<<"a", "c">>), JStr(<<" ">>)>>), JStr(<<"a", "c">>)},
        ta \in {Omit, JNone},
        dp \in {JList(<<>>), JInt(5)},
        q \in {Omit, JList(<<>>), JList(<<DQ>>)} \cup NonListOpts}

DraftReplies ==
    {JNone, NoChoices}
    \cup {JText(t) : t \in ShortTexts \cup BrokenTexts}
    \cup {JText(t) : t \in UNION {Wrap(o) : o \in DraftObjects}}

(* the inputs of the two handlers *)
RequestTypes == {"PBI", "Bug"}

ExtraContexts == {JNone, JStr(<<"c", "t", "x">>)}

AuthHeaders ==
    {<<>>, BEARER \o <<"t">>, <<" ">> \o BEARER \o <<"t">>, <<"B", "a", "s", "i", "c", " ", "t">>}

GateRepliesOfRequest ==
    {JNone, JText(<<TProse>>), JText(<<TVal(JList(<<>>))>>)}
    \cup
    {JText(GateObject(a, m, q, s, JFlt(7))) :
        a \in {Omit, JStr(ASK_QUESTIONS_ONLY), JStr(CREATE_DRAFT),
               JStr(<<"m", "a", "y", "b", "e">>)},
        m \in {JStr(<<"m", "s", "g">>), JNone},
        q \in {JList(<<>>), JList(<<Q1, Q2>>), JStr(<<"t", "x", "t">>)},
        s \in {JList(<<>>), JList(<<A1>>), JList(<<JNone>>)}}

DraftRepliesOfRequest ==
    {JNone, NoChoices, JText(<<TProse>>), JText(<<TVal(JInt(5))>>)}
    \cup
    {JText(DraftObject(ti, de, Omit, ac, Omit, Omit, Omit, q, JFlt(7))) :
        ti \in {JStr(<<"T">>), JNone},
        de \in {JStr(<<"d">>), Omit},
        ac \in {Omit, JList(<<JStr(<<"a", "c">>)>>)},
        q \in {Omit, JList(<<>>), JList(<<DQ>>), JStr(<<"t", "x", "t">>)}}

IsHandler == req # NoVal /\ req.op \in {"draft", "create"}

(***************************************************************************)
(* soft_gate, step by step.                                                *)
(***************************************************************************)
GateEnter ==
    /\ pc = "gate_enter"
    /\ IF GateGuard(req.notes)
       THEN /\ gate' = JDict(GateShortCircuit)
            /\ pc' = "gate_ret"
            /\ calls' = calls
       ELSE /\ calls' = Append(calls, "gate:start")
            /\ pc' = "gate_wait"
            /\ gate' = gate
    /\ UNCHANGED <<req, reply, draft, exc, resp, merged_context, again>>

GateOracleReply ==
    /\ pc = "gate_wait"
    /\ \E completion \in (IF IsHandler THEN GateRepliesOfRequest ELSE GateReplies) :
          LET r == GateFromReply(completion) IN
          /\ reply' = completion
          /\ calls' = Append(calls, "gate:end")
          /\ IF r.ok
             THEN gate' = r.v /\ pc' = "gate_ret" /\ exc' = exc
             ELSE gate' = gate /\ pc' = "raised" /\ exc' = r.err
    /\ UNCHANGED <<req, draft, resp, merged_context, again>>

GateOracleError ==
    /\ pc = "gate_wait"
    /\ calls' = Append(calls, "gate:fail")
    /\ exc' = "OracleTransportError"
    /\ pc' = "raised"
    /\ UNCHANGED <<req, reply, gate, draft, resp, merged_context, again>>

(***************************************************************************)
(* generate_work_item_draft, step by step.                                 *)
(***************************************************************************)
DraftEnter ==
    /\ pc = "draft_enter"
    /\ IF DraftGuard(req.notes)
       THEN /\ draft' = JDict(DraftCanned)
            /\ pc' = "draft_ret"
            /\ calls' = calls
       ELSE /\ calls' = Append(calls, "draft:start")
            /\ pc' = "draft_wait"
            /\ draft' = draft
    /\ UNCHANGED <<req, reply, gate, exc, resp, merged_context, again>>

(* _client() finds a required setting missing *)
DraftClientError ==
    /\ pc = "draft_enter"
    /\ ~DraftGuard(req.notes)
    /\ exc' = "RuntimeError"
    /\ pc' = "raised"
    /\ UNCHANGED <<req, reply, gate, draft, calls, resp, merged_context, again>>

DraftOracleReply ==
    /\ pc = "draft_wait"
    /\ \E completion \in (IF IsHandler THEN DraftRepliesOfRequest ELSE DraftReplies) :
          LET r == DraftFromReply(completion) IN
          /\ reply' = completion
          /\ calls' = Append(calls, "draft:end")
          /\ IF r.ok
             THEN draft' = r.v /\ pc' = "draft_ret" /\ exc' = exc
             ELSE draft' = draft /\ pc' = "raised" /\ exc' = r.err
    /\ UNCHANGED <<req, gate, resp, merged_context, again>>

DraftOracleError ==
    /\ pc = "draft_wait"
    /\ calls' = Append(calls, "draft:fail")
    /\ exc' = "OracleTransportError"
    /\ pc' = "raised"
    /\ UNCHANGED <<req, reply, gate, draft, resp, merged_context, again>>

(***************************************************************************)
(* main.py: the draft handler, the create handler, the exception handler.  *)
(***************************************************************************)
Request(op, notes, wit, extra, auth) ==
    [op |-> op, notes |-> notes, wit |-> wit, extra |-> extra, auth |-> auth]

Response(status, body) == [status |-> status, body |-> body]

(* POST /api/work-items/draft: DraftRequest requires len(notes) >= 1 *)
DraftRequest ==
    /\ pc = "idle"
    /\ \E notes \in NotesTexts, wit \in RequestTypes, extra \in ExtraContexts :
          /\ req' = Request("draft", notes, wit, extra, <<>>)
          /\ IF Len(notes.s) < 1
             THEN resp' = Response(422, JNone) /\ pc' = "done"
             ELSE resp' = resp /\ pc' = "gate_enter"
    /\ UNCHANGED <<reply, gate, draft, calls, exc, merged_context, again>>

(* POST /api/work-items/create, up to the call of soft_gate *)
CreateRequest ==
    /\ pc = "idle"
    /\ \E notes \in NotesTexts, wit \in RequestTypes, extra \in ExtraContexts,
          auth \in AuthHeaders :
          /\ req' = Request("create", notes, wit, extra, auth)
          /\ IF ~StartsWith(auth, BEARER)
             THEN resp' = Response(401, JStr(<<"Missing Bearer token">>)) /\ pc' = "done"
             ELSE resp' = resp /\ pc' = "gate_enter"
    /\ UNCHANGED <<reply, gate, draft, calls, exc, merged_context, again>>

(* draft_work_item, from the gate result to the call of the generator *)
DraftAfterGate ==
    /\ pc = "gate_ret"
    /\ req.op = "draft"
    /\ IF gate.d["action"] = JStr(ASK_QUESTIONS_ONLY)
       THEN /\ merged_context' = merged_context
            /\ IF GateResponseValid(gate.d)
               THEN /\ resp' = Response(200, [gate |-> gate, draft |-> JNone])
                    /\ pc' = "done"
                    /\ exc' = exc
               ELSE /\ exc' = "ValidationError"
                    /\ pc' = "raised"
                    /\ resp' = resp
       ELSE LET m == MergedContext(req.extra, gate.d) IN
            /\ resp' = resp
            /\ IF m.ok
               THEN merged_context' = m.v /\ pc' = "draft_enter" /\ exc' = exc
               ELSE merged_context' = merged_context /\ pc' = "raised" /\ exc' = m.err
    /\ UNCHANGED <<req, reply, gate, draft, calls, again>>

(* draft_work_item, from the draft to the response *)
DraftFinish ==
    /\ pc = "draft_ret"
    /\ req.op = "draft"
    /\ LET d == MergeQuestions(draft.d, gate.d) IN
       /\ draft' = JDict(d)
       /\ IF GateResponseValid(gate.d) /\ DraftResponseValid(d)
          THEN /\ resp' = Response(200, [gate |-> gate, draft |-> JDict(d)])
               /\ pc' = "done"
               /\ exc' = exc
          ELSE /\ exc' = "ValidationError"
               /\ pc' = "raised"
               /\ resp' = resp
    /\ UNCHANGED <<req, reply, gate, calls, merged_context, again>>

(* create_work_item_endpoint, from the gate result to the call of the     *)
(* generator                                                               *)
CreateAfterGate ==
    /\ pc = "gate_ret"
    /\ req.op = "create"
    /\ IF gate.d["action"] = JStr(ASK_QUESTIONS_ONLY)
       THEN /\ resp' = Response(200, [created |-> FALSE, gate |-> gate])
            /\ pc' = "done"
            /\ UNCHANGED <<merged_context, exc>>
       ELSE LET m == MergedContext(req.extra, gate.d) IN
            /\ resp' = resp
            /\ IF m.ok
               THEN merged_context' = m.v /\ pc' = "draft_enter" /\ exc' = exc
               ELSE merged_context' = merged_context /\ pc' = "raised" /\ exc' = m.err
    /\ UNCHANGED <<req, reply, gate, draft, calls, again>>

(* create_work_item_endpoint, from the draft to the response *)
CreateFinish ==
    /\ pc = "draft_ret"
    /\ req.op = "create"
    /\ \E providerOk \in BOOLEAN :
       LET d == MergeQuestions(draft.d, gate.d)
           html == render_description_html_call([draft |-> JDict(d), gate |-> gate])
           ado == create_work_item_call(
                     [bearer_token |-> JStr(BearerToken(req.auth)),
                      work_item_type |-> req.wit,
                      title |-> d["title"],
                      description_html |-> html.v], providerOk)
       IN
       /\ draft' = JDict(d)
       /\ IF ~html.ok
          THEN /\ exc' = html.err
               /\ pc' = "raised"
               /\ UNCHANGED <<resp, calls>>
          ELSE /\ calls' = calls \o (IF ado.posted # <<>> THEN <<"ado:start", "ado:end">> ELSE <<>>)
               /\ IF ~ado.ok
                  THEN exc' = ado.err /\ pc' = "raised" /\ resp' = resp
                  ELSE /\ resp' = Response(200,
                                     [created |-> TRUE, workItemId |-> ado.v.id,
                                      workItemUrl |-> JNone,
                                      draft |-> JDict(d), gate |-> gate])
                       /\ pc' = "done"
                       /\ exc' = exc
    /\ UNCHANGED <<req, reply, gate, merged_context, again>>

(* unhandled_exception_handler *)
unhandled_exception_handler ==
    /\ pc = "raised"
    /\ IsHandler
    /\ resp' = Response(500, JStr(<<"Internal Server Error (check logs)">>))
    /\ pc' = "done"
    /\ UNCHANGED <<req, reply, gate, draft, calls, exc, merged_context, again>>

Init ==
    /\ pc = "idle"
    /\ req = NoVal
    /\ reply = NoVal
    /\ gate = NoVal
    /\ draft = NoVal
    /\ calls = <<>>
    /\ exc = "none"
    /\ resp = NoVal
    /\ merged_context = NoVal
    /\ again = NoVal

Next ==
    \/ DraftRequest
    \/ CreateRequest
    \/ GateEnter
    \/ GateOracleReply
    \/ GateOracleError
    \/ DraftAfterGate
    \/ CreateAfterGate
    \/ DraftEnter
    \/ DraftClientError
    \/ DraftOracleReply
    \/ DraftOracleError
    \/ DraftFinish
    \/ CreateFinish
    \/ unhandled_exception_handler

Spec == Init /\ [][Next]_vars

(***************************************************************************)
(* The two functions on their own: soft_gate and generate_work_item_draft  *)
(* are called on every bounded input, and the normalization steps are then *)
(* applied once more to what they returned.                                *)
(***************************************************************************)
GateReapply ==
    /\ pc = "gate_ret"
    /\ req.op = "soft_gate"
    /\ again' = GateNormalize(gate)
    /\ pc' = "reapplied"
    /\ UNCHANGED <<req, reply, gate, draft, calls, exc, resp, merged_context>>

DraftReapply ==
    /\ pc = "draft_ret"
    /\ req.op = "generate"
    /\ again' = DraftNormalize(draft)
    /\ pc' = "reapplied"
    /\ UNCHANGED <<req, reply, gate, draft, calls, exc, resp, merged_context>>

InitNorm ==
    /\ \E op \in {"soft_gate", "generate"}, notes \in NotesTexts \cup {JNone},
          wit \in WorkItemType :
          /\ req = Request(op, notes, wit, JNone, <<>>)
          /\ pc = IF op = "soft_gate" THEN "gate_enter" ELSE "draft_enter"
    /\ reply = NoVal
    /\ gate = NoVal
    /\ draft = NoVal
    /\ calls = <<>>
    /\ exc = "none"
    /\ resp = NoVal
    /\ merged_context = NoVal
    /\ again = NoVal

NextNorm ==
    \/ GateEnter
    \/ GateOracleReply
    \/ GateOracleError
    \/ GateReapply
    \/ DraftEnter
    \/ DraftClientError
    \/ DraftOracleReply
    \/ DraftOracleError
    \/ DraftReapply

SpecNorm == InitNorm /\ [][NextNorm]_vars

(***************************************************************************)
(* Properties.                                                             *)
(***************************************************************************)
Count(seq, x) == Cardinality({i \in 1..Len(seq) : seq[i] = x})

Has(seq, x) == \E i \in 1..Len(seq) : seq[i] = x

GateKeys == {"action", "messageToUser", "questions", "assumptions", "confidence"}

(* the object the last completion holds when it is strictly one JSON object *)
ReplyIsObject ==
    /\ reply.t = "text"
    /\ JsonLoads(reply.toks).ok
    /\ JsonLoads(reply.toks).v.t = "dict"

ReplyObject == JsonLoads(reply.toks).v.d

GateReturned == req.op = "soft_gate" /\ pc \in {"gate_ret", "reapplied"}

DraftReturned == req.op = "generate" /\ pc \in {"draft_ret", "reapplied"}

TrimmedLength(notes) == IF notes = JNone THEN 0 ELSE Len(Strip(notes.s))

(* C1: notes whose trimmed length is below 2 (empty and missing notes      *)
(* included), with any work-item type, make soft_gate return               *)
(* ask_questions_only with confidence 0.2 and no assumptions, and no       *)
(* oracle call is made during the evaluation.                              *)
C1_ShortNotesShortCircuit ==
    (req.op = "soft_gate" /\ TrimmedLength(req.notes) < 2 /\ pc # "gate_enter")
    => /\ pc \in {"gate_ret", "reapplied"}
       /\ gate.t = "dict"
       /\ gate.d["action"] = JStr(ASK_QUESTIONS_ONLY)
       /\ gate.d["confidence"] = JFlt(2)
       /\ gate.d["assumptions"] = JList(<<>>)
       /\ calls = <<>>

C1_Witness ==
    /\ req.op = "soft_gate"
    /\ req.notes = JStr(<<" ", "x">>)
    /\ req.wit = "Epic"
    /\ pc = "gate_ret"

(* C2: in draft and create, a gate result with action ask_questions_only   *)
(* ends the request: no draft call, no adapter call, and the response      *)
(* carries the gate result with no draft (created = false for create).     *)
C2_AskQuestionsOnlyIsTerminal ==
    (IsHandler /\ pc = "done" /\ gate # NoVal
        /\ gate.d["action"] = JStr(ASK_QUESTIONS_ONLY))
    => /\ ~Has(calls, "draft:start")
       /\ ~Has(calls, "ado:start")
       /\ draft = NoVal
       /\ resp.status = 200
       /\ resp.body.gate = gate
       /\ (req.op = "draft" => resp.body.draft = JNone)
       /\ (req.op = "create" => resp.body.created = FALSE)

StepFourDone == IsHandler /\ pc \in {"done", "raised"} /\ draft # NoVal

(* the questions of the draft as the generator returned it *)
OwnQuestions == DraftFromReply(reply).v.d["questions"]

(* C3: after the composition step, a draft whose own questions are not     *)
(* empty keeps exactly its own questions; a draft with no questions of its *)
(* own gets exactly the gate's questions, in the same order, when the gate *)
(* has any.                                                                *)
C3_QuestionsFallback ==
    StepFourDone
    => /\ (OwnQuestions.items # <<>> => draft.d["questions"] = OwnQuestions)
       /\ (OwnQuestions.items = <<>> /\ gate.d["questions"].items # <<>>
              => draft.d["questions"] = gate.d["questions"])

C3_Witness ==
    /\ StepFourDone
    /\ req.op = "draft"
    /\ resp # NoVal
    /\ resp.status = 200
    /\ OwnQuestions = JList(<<>>)
    /\ draft.d["questions"] = JList(<<Q1, Q2>>)

(* C4: every gate result has one of the two enumerated actions, whatever   *)
(* the oracle returned.                                                    *)
C4_ActionEnumerated ==
    gate # NoVal
    => gate.d["action"] \in {JStr(CREATE_DRAFT), JStr(ASK_QUESTIONS_ONLY)}

(* C5: a create request with a Bearer header, a gate result create_draft   *)
(* and a draft from the generator calls the adapter once, after the draft  *)
(* call, and a provider success gives the response created = true with the *)
(* draft and the gate.                                                     *)
C5_CreateCallsAdapter ==
    (req # NoVal /\ req.op = "create" /\ pc = "done" /\ draft # NoVal
        /\ gate.d["action"] = JStr(CREATE_DRAFT))
    => /\ Count(calls, "ado:start") = 1
       /\ calls[Len(calls) - 1] = "ado:start"
       /\ (exc = "none" => resp.status = 200 /\ resp.body.created = TRUE
                           /\ resp.body.draft = draft /\ resp.body.gate = gate)

InUnitRange(c) == c.t = "flt" /\ 0 <= c.n /\ c.n <= 10

NotNumeric(x) ==
    \/ x.t \in {"none", "list"}
    \/ x.t = "str" /\ x.s \in {<<"a", "b", "c">>, <<>>}

(* C6: the confidence of every returned draft and gate result lies in      *)
(* [0, 1]; a missing or non-numeric confidence becomes 0.5 for a draft and *)
(* 0.6 for a gate result, and the short-circuit paths return 0.2.          *)
C6_ConfidenceInRange ==
    /\ GateReturned
       => /\ InUnitRange(gate.d["confidence"])
          /\ (reply = NoVal => gate.d["confidence"] = JFlt(2))
          /\ (reply # NoVal /\ ReplyIsObject
                /\ ("confidence" \notin DOMAIN ReplyObject
                    \/ NotNumeric(Get(ReplyObject, "confidence")))
              => gate.d["confidence"] = JFlt(6))
    /\ DraftReturned
       => /\ InUnitRange(draft.d["confidence"])
          /\ (reply = NoVal => draft.d["confidence"] = JFlt(2))
          /\ (reply # NoVal /\ ReplyIsObject
                /\ ("confidence" \notin DOMAIN ReplyObject
                    \/ NotNumeric(Get(ReplyObject, "confidence")))
              => draft.d["confidence"] = JFlt(5))

C6_Witness ==
    /\ req.op = "generate"
    /\ pc = "draft_ret"
    /\ reply # NoVal
    /\ ReplyIsObject
    /\ Get(ReplyObject, "confidence") = JFlt(15)
    /\ draft.d["confidence"] = JFlt(10)

(* C7: the normalization steps of either path, applied to what the path    *)
(* returned, succeed and return the same value.                            *)
C7_NormalizeIdempotent ==
    pc = "reapplied"
    => /\ again.ok
       /\ (req.op = "soft_gate" => again.v = gate)
       /\ (req.op = "generate" => again.v = draft)

C7_Witness ==
    /\ pc = "reapplied"
    /\ req.op = "generate"
    /\ ReplyIsObject
    /\ Get(ReplyObject, "questions") = JNone
    /\ draft.d["questions"] = JList(<<JStr(<<"N", "o", "n", "e">>)>>)

(* C8: once the oracle call has returned, soft_gate returns a gate result  *)
(* with all five fields for every payload and never fails.                 *)
C8_GateAlwaysAnswers ==
    (req # NoVal /\ req.op = "soft_gate" /\ Has(calls, "gate:end"))
    => /\ pc \in {"gate_ret", "reapplied"}
       /\ gate.t = "dict"
       /\ GateKeys \subseteq DOMAIN gate.d

(* what the list rule of the normalizer makes of a field of the object *)
Singleton(obj, k) ==
    IF k \notin DOMAIN obj THEN JList(<<>>)
    ELSE IF obj[k].t = "list" THEN obj[k]
    ELSE JList(<<JStr(PyStr(obj[k]))>>)

Emptied(obj, k) ==
    IF k \notin DOMAIN obj THEN JList(<<>>)
    ELSE IF obj[k].t = "list" THEN obj[k]
    ELSE JList(<<>>)

DraftListsCoerced ==
    (DraftReturned /\ reply # NoVal /\ ReplyIsObject)
    => \A i \in 1..Len(DraftListKeys) :
          draft.d[DraftListKeys[i]] = Singleton(ReplyObject, DraftListKeys[i])

(* C9 as stated: every list field of a draft and of a gate result is the   *)
(* empty list when missing, the list itself when a list, and otherwise the *)
(* one-element list of the value's string representation.                  *)
C9_ListsCoercedToSingleton ==
    /\ DraftListsCoerced
    /\ (GateReturned /\ reply # NoVal /\ ReplyIsObject)
       => \A k \in {"questions", "assumptions"} :
             gate.d[k] = Singleton(ReplyObject, k)

(* C9 amended: the draft's list fields are as stated; a gate result's      *)
(* questions and assumptions are the empty list when missing, the list     *)
(* itself when a list, and the empty list for any other value.             *)
C9_ListsRepaired ==
    /\ DraftListsCoerced
    /\ (GateReturned /\ reply # NoVal /\ ReplyIsObject)
       => \A k \in {"questions", "assumptions"} :
             gate.d[k] = Emptied(ReplyObject, k)

C9_Witness ==
    /\ GateReturned
    /\ reply # NoVal
    /\ ReplyIsObject
    /\ Get(ReplyObject, "questions") = JInt(5)
    /\ Get(ReplyObject, "assumptions") = JList(<<A1>>)
    /\ gate.d["questions"] = JList(<<>>)
    /\ gate.d["assumptions"] = JList(<<A1>>)

(* the position of the first x in seq, or 0 *)
IndexOf(seq, x) ==
    IF Has(seq, x) THEN CHOOSE i \in 1..Len(seq) :
                            seq[i] = x /\ \A j \in 1..(i - 1) : seq[j] # x
    ELSE 0

(* C10: in a draft or create request the gate call completes before the    *)
(* draft call starts, the draft call follows only a gate result with       *)
(* action create_draft, each oracle call is made at most once, and a       *)
(* failed call is the request's last outbound call.                        *)
C10_SequentialSingleShot ==
    IsHandler
    => /\ Count(calls, "gate:start") <= 1
       /\ Count(calls, "draft:start") <= 1
       /\ Has(calls, "draft:start")
          => /\ Has(calls, "gate:end")
             /\ IndexOf(calls, "gate:end") < IndexOf(calls, "draft:start")
             /\ gate.d["action"] = JStr(CREATE_DRAFT)
       /\ \A i \in 1..Len(calls) :
             calls[i] \in {"gate:fail", "draft:fail"}
             => i = Len(calls) /\ pc \in {"raised", "done"} /\ exc # "none"

====
